---- MODULE Spec2Model ----
(***************************************************************************)
(* Model of decrypt_key.py: the two-stage key-unwrapping pipeline          *)
(* (get_master_key, get_wrapped_db_key, decrypt_db_key and the __main__    *)
(* block that sequences them).                                             *)
(*                                                                         *)
(* Bytes are integers 0..255, byte strings are sequences of bytes, and     *)
(* Python str values are sequences of code points.  None is a value that   *)
(* is neither.                                                             *)
(***************************************************************************)
EXTENDS Integers, Sequences, FiniteSets, TLC

VARIABLES pc, env, master_key, wrapped_key, final_key, stages, cipher, opened, out, prov

vars == <<pc, env, master_key, wrapped_key, final_key, stages, cipher, opened, out, prov>>

(***************************************************************************)
(* Bounds of the model.                                                    *)
(***************************************************************************)
\* number of distinct byte patterns tried for a key of each length
NumKeys == 2
\* number of distinct 12-byte nonces tried
NumNonces == 2
\* short (non-64-character) plaintexts have 0..MaxShort characters
MaxShort == 2

(***************************************************************************)
(* Program constants.                                                      *)
(***************************************************************************)
HeaderLen == 3
NonceEnd == 15
TagLen == 16
\* length of the "DPAPI" marker dropped from the protected blob
PrefixLen == 5

(***************************************************************************)
(* Python values.                                                          *)
(***************************************************************************)
None == <<-1>>

\* a test that ignores the value returned by the stage
TruthyAlways(x) == TRUE

\* `if x:` for x a bytes/str value or None
Truthy(x) == x # None /\ x # <<>>

\* a printed line: its marker, its text and the interpolated exception
Line(tag, text, detail) == [tag |-> tag, text |-> text, detail |-> detail, val |-> <<>>]

\* print(final_key)
KeyLine(k) == [tag |-> "KEY", text |-> "", detail |-> "", val |-> k]

\* code points of a literal
V10 == <<118, 49, 48>>
V11 == <<118, 49, 49>>
V09 == <<118, 48, 57>>
ZeroX == <<48, 120>>

PyNorm(i, n) == IF i < 0 THEN (IF i + n < 0 THEN 0 ELSE i + n)
                ELSE IF i > n THEN n ELSE i

\* s[lo:hi]
PySlice(s, lo, hi) ==
    LET a == PyNorm(lo, Len(s))
        b == PyNorm(hi, Len(s))
    IN  IF a >= b THEN <<>> ELSE SubSeq(s, a + 1, b)

\* s[lo:]
PySliceFrom(s, lo) == PySlice(s, lo, Len(s))

\* s[:hi]
PySliceTo(s, hi) == PySlice(s, 0, hi)

(***************************************************************************)
(* bytes.decode('utf-8'): strict UTF-8 decoding to code points.            *)
(***************************************************************************)
IsCont(b, i) == i <= Len(b) /\ b[i] \in 128..191

\* the number of continuation bytes the lead byte at i announces, -1 if the
\* byte cannot start a character
Utf8Need(b, i) ==
    LET c == b[i] IN
      IF c < 128 THEN 0
      ELSE IF c \in 194..223 THEN 1
      ELSE IF c \in 224..239 THEN 2
      ELSE IF c \in 240..244 THEN 3
      ELSE 0 - 1

\* the character starting at i is well formed (no overlong form, no
\* surrogate, nothing above U+10FFFF)
Utf8CharOk(b, i) ==
    LET c == b[i] IN
      /\ Utf8Need(b, i) >= 0
      /\ \A k \in 1..Utf8Need(b, i) : IsCont(b, i + k)
      /\ (c = 224 => b[i + 1] >= 160)
      /\ (c = 237 => b[i + 1] <= 159)
      /\ (c = 240 => b[i + 1] >= 144)
      /\ (c = 244 => b[i + 1] <= 143)

\* a continuation byte belongs to the character started 1, 2 or 3 bytes before
Utf8Owned(b, i) ==
    \E j \in 1..(i - 1) :
        /\ b[j] \notin 128..191
        /\ Utf8Need(b, j) >= i - j
        /\ \A k \in (j + 1)..(i - 1) : b[k] \in 128..191

Utf8CodePoint(b, i) ==
    LET c == b[i] IN
      IF c < 128 THEN c
      ELSE IF c < 224 THEN (c - 192) * 64 + (b[i + 1] - 128)
      ELSE IF c < 240 THEN (c - 224) * 4096 + (b[i + 1] - 128) * 64 + (b[i + 2] - 128)
      ELSE (c - 240) * 262144 + (b[i + 1] - 128) * 4096
             + (b[i + 2] - 128) * 64 + (b[i + 3] - 128)

Utf8Decode(b) ==
    LET IsLead(i) == b[i] \notin 128..191
        leads == SelectSeq([i \in 1..Len(b) |-> i], IsLead)
        ok == \A i \in 1..Len(b) :
                 IF IsLead(i) THEN Utf8CharOk(b, i) ELSE Utf8Owned(b, i)
    IN  IF ~ok THEN [ok |-> FALSE, text |-> <<>>]
        ELSE [ok |-> TRUE, text |-> [n \in 1..Len(leads) |-> Utf8CodePoint(b, leads[n])]]

(***************************************************************************)
(* AES-GCM (pycryptodome), as an ideal AEAD: a keystream cipher determined *)
(* by (key, nonce) and a 16-byte tag determined by (key, nonce, ciphertext)*)
(* that changes whenever a bit of the ciphertext, the key or the nonce     *)
(* changes.  Associated data is empty.                                     *)
(***************************************************************************)
RECURSIVE Xor(_, _)
Xor(a, b) == IF a = 0 THEN b
             ELSE IF b = 0 THEN a
             ELSE ((a + b) % 2) + 2 * Xor(a \div 2, b \div 2)

\* a checksum of a byte string, standing for the key schedule and for the
\* counter block derived from the nonce
RECURSIVE DigestSum(_, _, _)
DigestSum(s, lo, hi) ==
    IF lo > hi THEN 0
    ELSE IF lo = hi THEN (s[lo] + 1) * (lo * lo + 7)
    ELSE LET mid == (lo + hi) \div 2
         IN  DigestSum(s, lo, mid) + DigestSum(s, mid + 1, hi)

Digest(s) == (97 * Len(s) + DigestSum(s, 1, Len(s))) % 65521

\* the key sizes AES.new accepts: AES-128, AES-192, AES-256
AesKeySizes == {16, 24, 32}

GcmKeystream(key, nonce, n) ==
    LET dk == Digest(key)
        dn == Digest(nonce)
    IN  [i \in 1..n |-> (dk + 7 * dn + 13 * i) % 256]

\* CTR-mode encryption and decryption are the same XOR with the keystream
GcmCrypt(key, nonce, data) ==
    LET ks == GcmKeystream(key, nonce, Len(data))
    IN  [i \in 1..Len(data) |-> Xor(data[i], ks[i])]

\* bytes i, i+16, i+32, ... of the ciphertext, each with an odd weight
RECURSIVE MacLane(_, _)
MacLane(c, i) ==
    IF i > Len(c) THEN 0
    ELSE (2 * ((i - 1) \div TagLen) + 1) * (c[i] + 1) + MacLane(c, i + TagLen)

\* the low byte of a digest for odd j, its high byte for even j
DigestByte(d, j) == IF j % 2 = 1 THEN d % 256 ELSE d \div 256

GcmMac(key, nonce, c) ==
    LET dk == Digest(key)
        dn == Digest(nonce)
    IN  [j \in 1..TagLen |->
            (DigestByte(dk, j) * (2 * j + 1) + DigestByte(dn, j) + Len(c) + MacLane(c, j)) % 256]

\* AES.new(key, AES.MODE_GCM, nonce=nonce): "" or the ValueError it raises
AesNew(key, nonce) ==
    IF Len(nonce) = 0 THEN "ValueError: Nonce cannot be empty"
    ELSE IF Len(key) \notin AesKeySizes THEN "ValueError: Incorrect AES key length"
    ELSE ""

\* decrypt() without verify(): the tag is never compared
DecryptWithoutVerify(key, nonce, ciphertext, tag) ==
    [raised |-> "", plain |-> GcmCrypt(key, nonce, ciphertext)]

\* cipher.decrypt_and_verify(ciphertext, tag)
DecryptAndVerify(key, nonce, ciphertext, tag) ==
    IF tag = GcmMac(key, nonce, ciphertext)
    THEN [raised |-> "", plain |-> GcmCrypt(key, nonce, ciphertext)]
    ELSE [raised |-> "ValueError: MAC check failed", plain |-> <<>>]

(***************************************************************************)
(* decrypt_db_key(master_key, wrapped_key)                                 *)
(*   ret    : the returned value (a str, or None)                          *)
(*   raised : the exception caught by the except clause ("" if none)       *)
(*   cipher : the calls made into the AES-GCM cipher, in order             *)
(*   out    : the lines printed                                            *)
(***************************************************************************)
HeaderOf(w) == PySliceTo(w, HeaderLen)
NonceOf(w) == PySlice(w, HeaderLen, NonceEnd)
CiphertextWithTag(w) == PySliceFrom(w, NonceEnd)
TagOf(w) == PySliceFrom(CiphertextWithTag(w), 0 - TagLen)
\* the tag left at the end of the ciphertext
CiphertextKeepingTag(w) == CiphertextWithTag(w)

CiphertextOf(w) == PySliceTo(CiphertextWithTag(w), 0 - TagLen)

\* any three-byte version tag starting with "v"
HeaderAcceptedAnyVersion(header) == Len(header) = HeaderLen /\ header[1] = 118

HeaderAccepted(header) == header \in {V10, V11}

DecryptFailed(exc, calls) ==
    [ret |-> None, raised |-> exc, cipher |-> calls,
     out |-> <<Line("INFO", "-> Decrypting final database key with AES-256-GCM...", ""),
               Line("ERROR", "Failed to decrypt final key. The MAC tag may have failed", ""),
               Line("DETAILS", "Details:", exc)>>]

FormatKey(text) == ZeroX \o text

decrypt_db_key(mk, w) ==
    IF ~HeaderAccepted(HeaderOf(w))
    THEN DecryptFailed("ValueError: Unexpected header format", <<>>)
    ELSE IF AesNew(mk, NonceOf(w)) # ""
    THEN DecryptFailed(AesNew(mk, NonceOf(w)), <<"AES.new">>)
    ELSE LET d == DecryptAndVerify(mk, NonceOf(w), CiphertextOf(w), TagOf(w))
             u == Utf8Decode(d.plain)
         IN  IF d.raised # ""
             THEN DecryptFailed(d.raised, <<"AES.new", "decrypt_and_verify">>)
             ELSE IF ~u.ok
             THEN DecryptFailed("UnicodeDecodeError", <<"AES.new", "decrypt_and_verify">>)
             ELSE [ret |-> FormatKey(u.text), raised |-> "",
                   cipher |-> <<"AES.new", "decrypt_and_verify">>,
                   out |-> <<Line("INFO", "-> Decrypting final database key with AES-256-GCM...", ""),
                             Line("SUCCESS", "Final database key decrypted.", "")>>]

(***************************************************************************)
(* Inputs: keys, nonces, plaintexts and the wrapped values built from them *)
(* the way Signal Desktop (and the spec's test vectors) build them.        *)
(***************************************************************************)
NonceLen == 12
KeyLen256 == 32
\* a 32-byte database key written as hex digits
PlainLen == 2 * KeyLen256

\* "0123456789abcdef"
HexChars == <<48, 49, 50, 51, 52, 53, 54, 55, 56, 57, 97, 98, 99, 100, 101, 102>>

IsHexChar(c) == c \in 48..57 \/ c \in 97..102 \/ c \in 65..70

Rep(n, b) == IF n = 0 THEN <<>> ELSE [i \in 1..n |-> b]

\* the k-th key of n bytes; the first 32-byte key is 32 zero bytes
KeyOfLen(n, k) == Rep(n, k - 1)

\* the k-th nonce; the first is 12 zero bytes
NonceNo(k) == [i \in 1..NonceLen |-> ((k - 1) * (16 + i)) % 256]

\* the k-th plaintext of 64 hex characters; the first is "a" * 64
HexPlain(k) == [i \in 1..PlainLen |-> HexChars[(((k - 1) * i + 10) % 16) + 1]]

KeyLens == {0, PrefixLen, 16, 24, KeyLen256}

MasterKeys == {KeyOfLen(n, k) : n \in KeyLens, k \in 1..NumKeys}

EncKeys == {KeyOfLen(n, k) : n \in AesKeySizes, k \in 1..NumKeys}

Keys256 == {KeyOfLen(KeyLen256, k) : k \in 1..NumKeys}

Nonces == {NonceNo(k) : k \in 1..NumNonces}

HexPlains == {HexPlain(k) : k \in 1..2}

\* "z" * n (not hex), n hex digits "f", 65 hex digits, "e-acute" in UTF-8,
\* and two byte strings that are not UTF-8
OtherPlains ==
    {Rep(n, 122) : n \in 0..MaxShort} \cup {Rep(n, 102) : n \in 1..MaxShort}
      \cup {Rep(PlainLen + 1, 97), <<195, 169>>, <<255>>, <<97, 195>>}

Plains == HexPlains \cup OtherPlains

Headers == {V10, V11, V09, <<86, 49, 48>>}

\* "v10" + nonce + ciphertext + tag
Wrap(hdr, key, nonce, plain) ==
    LET c == GcmCrypt(key, nonce, plain)
    IN  hdr \o nonce \o c \o GcmMac(key, nonce, c)

Pow2(b) == CASE b = 0 -> 1 [] b = 1 -> 2 [] b = 2 -> 4 [] b = 3 -> 8
             [] b = 4 -> 16 [] b = 5 -> 32 [] b = 6 -> 64 [] b = 7 -> 128

FlipBit(w, pos, bit) == [w EXCEPT ![pos] = Xor(@, Pow2(bit))]

NoProv == [kind |-> "none", hdr |-> <<>>, ekey |-> <<>>, nonce |-> <<>>,
           plain |-> <<>>, pos |-> 0, bit |-> 0]

WrapProv(kind, h, k, n, p, pos, bit) ==
    [kind |-> kind, hdr |-> h, ekey |-> k, nonce |-> n, plain |-> p,
     pos |-> pos, bit |-> bit]

TamperPlains == {HexPlain(1), Rep(MaxShort, 122), <<>>}

TruncatedLens == 0..(HeaderLen + NonceLen + TagLen - 1)

(***************************************************************************)
(* The environment of a run: the two environment variables and the files   *)
(* under the directories they name.  json.load and the subscripts applied  *)
(* to its result are modelled by the kind of the file:                     *)
(*   "missing"  open() raises FileNotFoundError                            *)
(*   "notjson"  json.load raises JSONDecodeError                           *)
(*   "nofield"  the subscripted field is absent (KeyError)                 *)
(*   "value"    the field holds the str `text`                             *)
(***************************************************************************)
\* os.getenv of an unset variable
NoneStr == "None"

RoamingDir == "C:\\Users\\u\\AppData\\Roaming"
LocalDir == "C:\\Users\\u\\AppData\\Local"

File(kind, text) == [kind |-> kind, text |-> text]

\* os.path.join(dir, 'Signal', name)
PathJoin(dir, name) == <<dir, "Signal", name>>

AllPaths == {PathJoin(d, f) : d \in {RoamingDir, LocalDir}, f \in {"Local State", "config.json"}}

(***************************************************************************)
(* bytes.fromhex                                                           *)
(***************************************************************************)
IsSpace(c) == c \in {32, 9, 10, 11, 12, 13}

HexVal(c) == IF c \in 48..57 THEN c - 48
             ELSE IF c \in 97..102 THEN c - 87
             ELSE c - 55

BErr == [ok |-> FALSE, bytes |-> <<>>]

NotSpace(c) == ~IsSpace(c)

\* whitespace is skipped between bytes, never between the two digits of one
FromHex(s) ==
    LET t == SelectSeq(s, NotSpace)
        aligned == \A i \in 1..Len(s) :
                      IsSpace(s[i]) => Len(SelectSeq(SubSeq(s, 1, i - 1), NotSpace)) % 2 = 0
    IN  IF Len(t) % 2 = 1 \/ ~aligned \/ \E i \in 1..Len(t) : ~IsHexChar(t[i])
        THEN BErr
        ELSE [ok |-> TRUE,
              bytes |-> [k \in 1..(Len(t) \div 2) |->
                            HexVal(t[2 * k - 1]) * 16 + HexVal(t[2 * k])]]

\* bytes.hex(), the text Signal Desktop stores in config.json
ToHex(b) ==
    [i \in 1..(2 * Len(b)) |->
        IF i % 2 = 1 THEN HexChars[(b[(i + 1) \div 2] \div 16) + 1]
        ELSE HexChars[(b[i \div 2] % 16) + 1]]

(***************************************************************************)
(* base64.b64decode (validate=False): characters outside the alphabet are  *)
(* discarded, and the data must be padded to a multiple of four.           *)
(***************************************************************************)
IsB64Char(c) == c \in 65..90 \/ c \in 97..122 \/ c \in 48..57 \/ c \in {43, 47}

B64Val(c) == IF c \in 65..90 THEN c - 65
             ELSE IF c \in 97..122 THEN c - 71
             ELSE IF c \in 48..57 THEN c + 4
             ELSE IF c = 43 THEN 62
             ELSE 63

B64Char(v) == IF v < 26 THEN v + 65
              ELSE IF v < 52 THEN v + 71
              ELSE IF v < 62 THEN v - 4
              ELSE IF v = 62 THEN 43
              ELSE 47

IsPad(c) == c = 61

\* the index of the first "=", Len(s) + 1 if there is none
FirstPad(s) ==
    CHOOSE i \in 1..(Len(s) + 1) :
        /\ (i <= Len(s) => IsPad(s[i]))
        /\ \A j \in 1..(i - 1) : ~IsPad(s[j])

B64Byte(q, k) ==
    LET bitpos == (k - 1) * 8
        f == bitpos \div 6
        off == bitpos % 6
    IN  IF off = 0 THEN q[f + 1] * 4 + q[f + 2] \div 16
        ELSE IF off = 2 THEN (q[f + 1] % 16) * 16 + q[f + 2] \div 4
        ELSE (q[f + 1] % 4) * 64 + q[f + 2]

B64Decode(s) ==
    LET cut == FirstPad(s)
        data == SelectSeq(SubSeq(s, 1, cut - 1), IsB64Char)
        pads == Len(SelectSeq(SubSeq(s, cut, Len(s)), IsPad))
        q == [i \in 1..Len(data) |-> B64Val(data[i])]
        r == Len(data) % 4
        n == (Len(data) * 6) \div 8
    IN  IF r = 1 \/ (r = 2 /\ pads < 2) \/ (r = 3 /\ pads < 1) THEN BErr
        ELSE [ok |-> TRUE, bytes |-> IF n = 0 THEN <<>> ELSE [k \in 1..n |-> B64Byte(q, k)]]

\* the sextet holding bits 6(j-1) .. 6j-1 of b, zero-filled at the end
B64Sextet(b, j) ==
    LET bitpos == (j - 1) * 6
        f == bitpos \div 8
        off == bitpos % 8
        hi == b[f + 1]
        lo == IF f + 2 <= Len(b) THEN b[f + 2] ELSE 0
    IN  IF off = 0 THEN hi \div 4
        ELSE IF off = 6 THEN (hi % 4) * 16 + lo \div 16
        ELSE IF off = 4 THEN (hi % 16) * 4 + lo \div 64
        ELSE hi % 64

\* base64.b64encode, the text Chromium stores in "Local State"
B64Encode(b) ==
    LET n == (Len(b) * 8 + 5) \div 6
        npad == (4 - (n % 4)) % 4
    IN  [j \in 1..n |-> B64Char(B64Sextet(b, j))] \o Rep(npad, 61)

(***************************************************************************)
(* get_appdata_path(local=False)                                           *)
(***************************************************************************)
get_appdata_path(e, local) == IF local THEN e.LOCALAPPDATA ELSE e.APPDATA

(***************************************************************************)
(* get_master_key(); dp is what win32crypt.CryptUnprotectData does with    *)
(* the blob: [ok |-> FALSE] when it raises, else the unprotected data.     *)
(* It raises for every blob that has no payload after the 5-byte marker.   *)
(***************************************************************************)
\* the argument of CryptUnprotectData: the blob without its first 5 bytes
ProtectedPayload(text) == PySliceFrom(B64Decode(text).bytes, PrefixLen)

MasterKeyFailed(exc, paths) ==
    [ret |-> None, raised |-> exc, opened |-> paths,
     out |-> <<Line("INFO", "-> Finding and decrypting master key...", ""),
               Line("ERROR", "Failed to get master key:", exc)>>]

\* the directory "Local State" is looked up in
LocalStateDir(e) == get_appdata_path(e, FALSE)

get_master_key(e, dp) ==
    LET dir == LocalStateDir(e)
        local_state_path == PathJoin(dir, "Local State")
    IN  IF dir = NoneStr THEN MasterKeyFailed("TypeError", <<>>)
        ELSE LET f == e.files[local_state_path] IN
          IF f.kind = "missing" THEN MasterKeyFailed("FileNotFoundError", <<local_state_path>>)
          ELSE IF f.kind = "notjson" THEN MasterKeyFailed("JSONDecodeError", <<local_state_path>>)
          ELSE IF f.kind = "nofield" THEN MasterKeyFailed("KeyError", <<local_state_path>>)
          ELSE IF ~B64Decode(f.text).ok THEN MasterKeyFailed("binascii.Error", <<local_state_path>>)
          ELSE IF ~dp.ok \/ ProtectedPayload(f.text) = <<>>
            THEN MasterKeyFailed("pywintypes.error", <<local_state_path>>)
          ELSE [ret |-> dp.data, raised |-> "", opened |-> <<local_state_path>>,
                out |-> <<Line("INFO", "-> Finding and decrypting master key...", ""),
                          Line("SUCCESS", "Master key decrypted.", "")>>]

(***************************************************************************)
(* get_wrapped_db_key()                                                    *)
(***************************************************************************)
WrappedKeyFailed(exc, paths) ==
    [ret |-> None, raised |-> exc, opened |-> paths,
     out |-> <<Line("INFO", "-> Finding wrapped database key...", ""),
               Line("ERROR", "Failed to get wrapped database key:", exc)>>]

\* the directory "config.json" is looked up in
ConfigDir(e) == get_appdata_path(e, FALSE)

get_wrapped_db_key(e) ==
    LET dir == ConfigDir(e)
        config_path == PathJoin(dir, "config.json")
    IN  IF dir = NoneStr THEN WrappedKeyFailed("TypeError", <<>>)
        ELSE LET f == e.files[config_path] IN
          IF f.kind = "missing" THEN WrappedKeyFailed("FileNotFoundError", <<config_path>>)
          ELSE IF f.kind = "notjson" THEN WrappedKeyFailed("JSONDecodeError", <<config_path>>)
          ELSE IF f.kind = "nofield" THEN WrappedKeyFailed("KeyError", <<config_path>>)
          ELSE IF ~FromHex(f.text).ok THEN WrappedKeyFailed("ValueError", <<config_path>>)
          ELSE [ret |-> FromHex(f.text).bytes, raised |-> "", opened |-> <<config_path>>,
                out |-> <<Line("INFO", "-> Finding wrapped database key...", ""),
                          Line("SUCCESS", "Found and decoded wrapped key from config.json.", "")>>]

(***************************************************************************)
(* The __main__ block.  pc is the line about to run.                       *)
(***************************************************************************)
\* "DPAPI" + an opaque protected payload
Dpapi == <<68, 80, 65, 80, 73>>

LocalStateFiles ==
    {File("missing", <<>>), File("notjson", <<>>), File("nofield", <<>>),
     File("value", <<61, 65>>),
     File("value", B64Encode(Dpapi)),
     File("value", B64Encode(Dpapi \o <<1, 0, 0, 0, 208>>)),
     File("value", B64Encode(<<1, 0, 0, 0, 208, 140, 157>>))}

\* the wrapped values found in config.json, with where they come from
ConfigWrapped ==
    {[w |-> Wrap(h, k, NonceNo(1), p), prov |-> WrapProv("wrap", h, k, NonceNo(1), p, 0, 0)] :
        h \in {V10, V09}, k \in EncKeys, p \in {HexPlain(1), <<>>, Rep(MaxShort, 122), <<255>>}}
    \cup
    {[w |-> PySliceTo(Wrap(V11, k, NonceNo(1), HexPlain(1)), len),
      prov |-> WrapProv("trunc", V11, k, NonceNo(1), HexPlain(1), len, 0)] :
        k \in Keys256, len \in {HeaderLen, NonceEnd, HeaderLen + NonceLen + TagLen - 1}}
    \cup
    {[w |-> FlipBit(Wrap(V10, k, NonceNo(1), HexPlain(1)), NonceEnd + 1, 0),
      prov |-> WrapProv("flip", V10, k, NonceNo(1), HexPlain(1), NonceEnd + 1, 0)] :
        k \in Keys256}

ConfigFiles ==
    {[file |-> File(kind, <<>>), prov |-> NoProv] : kind \in {"missing", "notjson", "nofield", "value"}}
    \cup {[file |-> File("value", t), prov |-> NoProv] : t \in {<<97>>, <<122, 122>>, <<32>>}}
    \cup {[file |-> File("value", ToHex(c.w)), prov |-> c.prov] : c \in ConfigWrapped}

DpapiOutcomes ==
    {[ok |-> TRUE, data |-> k] : k \in MasterKeys} \cup {[ok |-> FALSE, data |-> <<>>]}

Init ==
    \E appdata \in {NoneStr, RoamingDir}, localappdata \in {NoneStr, LocalDir},
       rls \in LocalStateFiles, lls \in {File("missing", <<>>), File("value", B64Encode(Dpapi \o <<1>>))},
       cfg \in ConfigFiles :
        /\ env = [APPDATA |-> appdata, LOCALAPPDATA |-> localappdata,
                  files |-> [q \in AllPaths |->
                      IF q = PathJoin(RoamingDir, "Local State") THEN rls
                      ELSE IF q = PathJoin(LocalDir, "Local State") THEN lls
                      ELSE IF q = PathJoin(RoamingDir, "config.json") THEN cfg.file
                      ELSE File("missing", <<>>)]]
        /\ prov = cfg.prov
        /\ pc = "l111"
        /\ master_key = None
        /\ wrapped_key = None
        /\ final_key = None
        /\ stages = <<>>
        /\ cipher = <<>>
        /\ opened = <<>>
        /\ out = <<>>

\* lines 111-113
MainBanner ==
    /\ pc = "l111"
    /\ out' = out \o <<Line("INFO", "Signal Desktop Decryption Tool (June 2025)", "")>>
    /\ pc' = "l115"
    /\ UNCHANGED <<env, master_key, wrapped_key, final_key, stages, cipher, opened, prov>>

\* lines 115-117: master_key = get_master_key(); if master_key:
MainGetMasterKey ==
    /\ pc = "l115"
    /\ \E dp \in DpapiOutcomes :
         LET r == get_master_key(env, dp)
         IN  /\ master_key' = r.ret
             /\ opened' = opened \o r.opened
             /\ out' = out \o r.out
             /\ pc' = IF Truthy(r.ret) THEN "l118" ELSE "l128"
    /\ stages' = Append(stages, "get_master_key")
    /\ UNCHANGED <<env, wrapped_key, final_key, cipher, prov>>

\* lines 118-119: wrapped_key = get_wrapped_db_key(); if wrapped_key:
MainGetWrappedDbKey ==
    /\ pc = "l118"
    /\ LET r == get_wrapped_db_key(env)
       IN  /\ wrapped_key' = r.ret
           /\ opened' = opened \o r.opened
           /\ out' = out \o r.out
           /\ pc' = IF Truthy(r.ret) THEN "l120" ELSE "l128"
    /\ stages' = Append(stages, "get_wrapped_db_key")
    /\ UNCHANGED <<env, master_key, final_key, cipher, prov>>

\* lines 120-121: final_key = decrypt_db_key(master_key, wrapped_key); if final_key:
MainDecryptDbKey ==
    /\ pc = "l120"
    /\ LET r == decrypt_db_key(master_key, wrapped_key)
       IN  /\ final_key' = r.ret
           /\ cipher' = cipher \o r.cipher
           /\ out' = out \o r.out
           /\ pc' = IF Truthy(r.ret) THEN "l122" ELSE "l128"
    /\ stages' = Append(stages, "decrypt_db_key")
    /\ UNCHANGED <<env, master_key, wrapped_key, opened, prov>>

\* lines 122-126
MainPrintKey ==
    /\ pc = "l122"
    /\ out' = out \o <<Line("INFO", "DECRYPTION COMPLETE!", ""),
                       Line("INFO", "Your Signal database key is:", ""),
                       KeyLine(final_key)>>
    /\ pc' = "l128"
    /\ UNCHANGED <<env, master_key, wrapped_key, final_key, stages, cipher, opened, prov>>

\* lines 128-129
MainFinish ==
    /\ pc = "l128"
    /\ out' = out \o <<Line("INFO", "Script finished.", "")>>
    /\ pc' = "done"
    /\ UNCHANGED <<env, master_key, wrapped_key, final_key, stages, cipher, opened, prov>>

Next ==
    \/ MainBanner
    \/ MainGetMasterKey
    \/ MainGetWrappedDbKey
    \/ MainDecryptDbKey
    \/ MainPrintKey
    \/ MainFinish

Spec == Init /\ [][Next]_vars

NoEnv == [APPDATA |-> None, LOCALAPPDATA |-> None]

(***************************************************************************)
(* A direct call decrypt_db_key(master_key, wrapped_key).                  *)
(***************************************************************************)
InitCall(mk, w, p) ==
    /\ pc = "call"
    /\ master_key = mk
    /\ wrapped_key = w
    /\ prov = p
    /\ final_key = None
    /\ env = NoEnv
    /\ stages = <<>>
    /\ cipher = <<>>
    /\ opened = <<>>
    /\ out = <<>>

\* validly wrapped values, each offered to every master key
InitWrapped ==
    \E mk \in MasterKeys, h \in Headers, k \in EncKeys, n \in Nonces, p \in Plains :
        InitCall(mk, Wrap(h, k, n, p), WrapProv("wrap", h, k, n, p, 0, 0))

\* validly wrapped values with one bit of the nonce, ciphertext or tag flipped
InitTampered ==
    \E h \in {V10, V11}, k \in Keys256, n \in Nonces, p \in TamperPlains :
        \E pos \in (HeaderLen + 1)..(NonceEnd + Len(p) + TagLen), bit \in 0..7 :
            InitCall(k, FlipBit(Wrap(h, k, n, p), pos, bit),
                     WrapProv("flip", h, k, n, p, pos, bit))

\* validly wrapped values cut to fewer than 3 + 12 + 16 bytes
InitTruncated ==
    \E h \in {V10, V11, V09}, k \in EncKeys, n \in Nonces, len \in TruncatedLens :
        InitCall(k, PySliceTo(Wrap(h, k, n, HexPlain(1)), len),
                 WrapProv("trunc", h, k, n, HexPlain(1), len, 0))

InitUnwrap == InitWrapped \/ InitTampered \/ InitTruncated

CallDecryptDbKey ==
    /\ pc = "call"
    /\ LET r == decrypt_db_key(master_key, wrapped_key)
       IN  /\ final_key' = r.ret
           /\ cipher' = r.cipher
           /\ out' = r.out
    /\ stages' = Append(stages, "decrypt_db_key")
    /\ pc' = "returned"
    /\ UNCHANGED <<env, master_key, wrapped_key, opened, prov>>

NextUnwrap == CallDecryptDbKey

SpecUnwrap == InitUnwrap /\ [][NextUnwrap]_vars

(***************************************************************************)
(* The wire format of a wrapped key as the specification states it,        *)
(* independent of how decrypt_db_key slices it:                            *)
(*   [0:3) version tag | [3:15) nonce | [15:len-16) ciphertext | tag       *)
(***************************************************************************)
MinWrappedLen == HeaderLen + NonceLen + TagLen

RecognizedHeader(w) == Len(w) >= HeaderLen /\ SubSeq(w, 1, HeaderLen) \in {V10, V11}

TagVerifies(mk, w) ==
    /\ Len(w) >= MinWrappedLen
    /\ SubSeq(w, Len(w) - TagLen + 1, Len(w))
         = GcmMac(mk, SubSeq(w, HeaderLen + 1, NonceEnd), SubSeq(w, NonceEnd + 1, Len(w) - TagLen))

Is64Hex(p) == Len(p) = PlainLen /\ \A i \in 1..Len(p) : IsHexChar(p[i])

Returned == pc = "returned"

KeyLines == {i \in 1..Len(out) : out[i].tag = "KEY"}
ErrorLines == {i \in 1..Len(out) : out[i].tag = "ERROR"}

\* C1: fail-closed authentication.  When a call of decrypt_db_key on a
\* wrapped value with a recognized header has returned and the 16-byte tag
\* does not verify for (master key, nonce, ciphertext), the result is None;
\* in particular for a validly wrapped value with one bit flipped, and for a
\* validly wrapped value unwrapped with a different 32-byte key.
C1_FailClosed ==
    Returned =>
        /\ (RecognizedHeader(wrapped_key) /\ ~TagVerifies(master_key, wrapped_key)
              => final_key = None)
        /\ (prov.kind = "flip" => final_key = None)
        /\ (prov.kind = "wrap" /\ Len(prov.ekey) = KeyLen256 /\ Len(master_key) = KeyLen256
              /\ master_key # prov.ekey => final_key = None)

\* a tampered ciphertext reached the cipher and was rejected by it
C1_Witness ==
    /\ Returned
    /\ prov.kind = "flip"
    /\ prov.pos > NonceEnd
    /\ Is64Hex(prov.plain)
    /\ cipher = <<"AES.new", "decrypt_and_verify">>
    /\ final_key = None

\* C2: round trip.  Unwrapping "v10" + N + ciphertext + tag, the AES-256-GCM
\* encryption of a 64-hex-character plaintext P under a 32-byte key K and a
\* 12-byte nonce N, with K returns exactly "0x" + P.
C2_RoundTrip ==
    (/\ Returned
     /\ prov.kind = "wrap"
     /\ prov.hdr = V10
     /\ Len(prov.ekey) = KeyLen256
     /\ Len(prov.nonce) = NonceLen
     /\ Is64Hex(prov.plain)
     /\ master_key = prov.ekey)
    => final_key = ZeroX \o prov.plain

\* the concrete scenario: K = 32 zero bytes, N = 12 zero bytes, P = "a" * 64
C2_Witness ==
    /\ Returned
    /\ prov.kind = "wrap"
    /\ prov.hdr = V10
    /\ master_key = Rep(KeyLen256, 0)
    /\ prov.ekey = master_key
    /\ prov.nonce = Rep(NonceLen, 0)
    /\ prov.plain = Rep(PlainLen, 97)
    /\ final_key = ZeroX \o Rep(PlainLen, 97)

\* C3: truncation rejection.  For every wrapped value shorter than 31 bytes
\* decrypt_db_key fails and the AES-GCM cipher is neither constructed nor
\* invoked.
C3_TruncatedNeverReachesCipher ==
    Returned /\ Len(wrapped_key) < MinWrappedLen
        => final_key = None /\ cipher = <<>>

\* C4: header rejection precedes decryption.  For every wrapped value whose
\* first 3 bytes are not "v10" or "v11", decrypt_db_key fails and the cipher
\* is neither constructed nor asked to decrypt/verify.
C4_HeaderRejectedBeforeCipher ==
    Returned /\ ~RecognizedHeader(wrapped_key)
        => final_key = None /\ cipher = <<>>

\* a complete, authentic "v09" value offered with its own 32-byte key
C4_Witness ==
    /\ Returned
    /\ prov.kind = "wrap"
    /\ prov.hdr = V09
    /\ master_key = prov.ekey
    /\ Len(master_key) = KeyLen256
    /\ Len(wrapped_key) >= MinWrappedLen
    /\ final_key = None
    /\ cipher = <<>>

StageOrder == <<"get_master_key", "get_wrapped_db_key", "decrypt_db_key">>

\* C5: short-circuit and no retry.  The stages run in the order master-key
\* resolution, wrapped-key resolution, key unwrapping, each at most once;
\* wrapped-key resolution is never invoked after master-key resolution
\* failed, and key unwrapping only after both earlier stages succeeded.
C5_ShortCircuit ==
    /\ Len(stages) <= Len(StageOrder)
    /\ stages = SubSeq(StageOrder, 1, Len(stages))
    /\ (Len(stages) >= 2 => master_key # None)
    /\ (Len(stages) >= 3 => wrapped_key # None)
    /\ (Len(stages) < 3 => cipher = <<>> /\ final_key = None)

\* a run that ended after wrapped-key resolution failed
C5_Witness ==
    /\ pc = "done"
    /\ stages = <<"get_master_key", "get_wrapped_db_key">>
    /\ master_key # None
    /\ wrapped_key = None
    /\ ErrorLines # {}

\* C6: exactly one terminal outcome.  A finished run has either emitted the
\* final key exactly once and reported no error, or reported an error and
\* emitted no key.
C6_OneTerminalOutcome ==
    pc = "done" =>
        \/ (Cardinality(KeyLines) = 1 /\ ErrorLines = {})
        \/ (KeyLines = {} /\ ErrorLines # {})

AuthFailureReported ==
    \E i \in 1..Len(out) : out[i].tag = "DETAILS" /\ out[i].detail = "ValueError: MAC check failed"

\* C7: distinguishable error kinds.  The value decrypt_db_key returns on a
\* tag-verification failure differs from the value it returns for the same
\* call with an unsupported header.
C7_KindsDistinguishable ==
    Returned /\ AuthFailureReported
        => final_key # decrypt_db_key(master_key, V09 \o PySliceFrom(wrapped_key, HeaderLen)).ret

\* C8: shape of the emitted key.  Whenever decrypt_db_key succeeds the
\* result is "0x" followed by exactly 64 hexadecimal digits.
C8_KeyShape ==
    Returned /\ final_key # None
        => /\ Len(final_key) = Len(ZeroX) + PlainLen
           /\ SubSeq(final_key, 1, Len(ZeroX)) = ZeroX
           /\ \A i \in (Len(ZeroX) + 1)..Len(final_key) : IsHexChar(final_key[i])

\* C9: master-key length check.  decrypt_db_key fails for every master key
\* whose length is not exactly 32 bytes.
C9_MasterKeyMustBe32Bytes ==
    Returned /\ Len(master_key) # KeyLen256 => final_key = None

\* C10: location of the two input files.  get_master_key opens "Local State"
\* under the directory LOCALAPPDATA names, get_wrapped_db_key opens
\* "config.json" under the directory APPDATA names, and the two are never
\* the same directory.
C10_FileLocations ==
    /\ (Len(opened) >= 1 => opened[1] = PathJoin(env.LOCALAPPDATA, "Local State"))
    /\ (Len(opened) >= 2 => /\ opened[2] = PathJoin(env.APPDATA, "config.json")
                            /\ opened[2][1] # opened[1][1])

====
